---- MODULE Spec2Model ----
(***************************************************************************)
(* Model of src/index.js: the NBA 2K roster scraper.                       *)
(*                                                                         *)
(*   Spec, FairSpec : one run of main() against a fixed remote site; the   *)
(*                    concurrent fetches of Promise.all complete in any    *)
(*                    order.                                               *)
(*   DetailSpec     : getPlayerDetail applied to one player page drawn     *)
(*                    from a bounded set of page shapes.                   *)
(*                                                                         *)
(* Page text is a sequence of one-character strings, so that trim,         *)
(* parseInt and the badge-tab regular expression are computed on the       *)
(* characters.  JavaScript values of mixed kinds are records tagged by k.  *)
(***************************************************************************)
EXTENDS Integers, Sequences, FiniteSets, TLC

VARIABLES teamPage, playerPage, pc, rosterReq, roster, ti, detail, order,
          players, csv, error, dPage, dRec, dpc

vars == <<teamPage, playerPage, pc, rosterReq, roster, ti, detail, order,
          players, csv, error, dPage, dRec, dpc>>

mainVars == <<teamPage, playerPage, pc, rosterReq, roster, ti, detail, order,
              players, csv, error>>

detailVars == <<dPage, dRec, dpc>>

(***************************************************************************)
(* Bounds                                                                  *)
(***************************************************************************)
NumTeams == 2
MaxEntries == 2
MaxAttrs == 2
MaxBadges == 1

(***************************************************************************)
(* JavaScript values                                                       *)
(***************************************************************************)
Null == [k |-> "null"]
Undefined == [k |-> "undefined"]
Pending == [k |-> "pending"]
NaN == [k |-> "NaN"]
Num(n) == [k |-> "number", v |-> n]
Str(s) == [k |-> "string", v |-> s]
List(s) == [k |-> "array", v |-> s]

RECURSIVE Concat(_)
Concat(ss) == IF ss = <<>> THEN <<>> ELSE Head(ss) \o Concat(Tail(ss))

Digits == {"0", "1", "2", "3", "4", "5", "6", "7", "8", "9"}
DigitVal == ("0" :> 0) @@ ("1" :> 1) @@ ("2" :> 2) @@ ("3" :> 3) @@ ("4" :> 4)
            @@ ("5" :> 5) @@ ("6" :> 6) @@ ("7" :> 7) @@ ("8" :> 8) @@ ("9" :> 9)
\* the white space of the pages modelled
WhiteSpace == {" "}

RECURSIVE TrimStart(_)
TrimStart(s) ==
  IF s # <<>> /\ Head(s) \in WhiteSpace THEN TrimStart(Tail(s)) ELSE s

RECURSIVE TrimEnd(_)
TrimEnd(s) ==
  IF s # <<>> /\ s[Len(s)] \in WhiteSpace
  THEN TrimEnd(SubSeq(s, 1, Len(s) - 1)) ELSE s

\* String.prototype.trim
trim(s) == TrimEnd(TrimStart(s))

\* the longest prefix of s made of decimal digits
RECURSIVE DigitPrefix(_)
DigitPrefix(s) ==
  IF s # <<>> /\ Head(s) \in Digits
  THEN <<Head(s)>> \o DigitPrefix(Tail(s)) ELSE <<>>

RECURSIVE DecimalValue(_)
DecimalValue(ds) ==
  IF ds = <<>> THEN 0
  ELSE 10 * DecimalValue(SubSeq(ds, 1, Len(ds) - 1)) + DigitVal[ds[Len(ds)]]

\* parseInt(x) of a string or of undefined: leading white space is skipped,
\* an optional sign is read, then the longest run of decimal digits; NaN
\* when there is no digit.
parseInt(x) ==
  IF x.k # "string" THEN NaN
  ELSE LET t == TrimStart(x.v)
           neg == t # <<>> /\ Head(t) = "-"
           body == IF t # <<>> /\ Head(t) \in {"-", "+"} THEN Tail(t) ELSE t
           ds == DigitPrefix(body)
       IN IF ds = <<>> THEN NaN
          ELSE Num(IF neg THEN 0 - DecimalValue(ds) ELSE DecimalValue(ds))

\* x || 0 for x a number or NaN
OrZero(x) == IF x.k = "number" /\ x.v # 0 THEN x.v ELSE 0

\* x || d for x a string or undefined
OrText(x, d) == IF x.k = "string" /\ x.v # <<>> THEN x.v ELSE d


(***************************************************************************)
(* Configuration: teams.js, util.js, player.js                             *)
(***************************************************************************)
TeamIds == <<"hawks", "celtics", "nets", "hornets">>
PrettyNames == <<"Atlanta Hawks", "Boston Celtics", "Brooklyn Nets",
                 "Charlotte Hornets">>

\* CURRENT_TEAMS: the configured, ordered team list
CURRENT_TEAMS == [i \in 1..NumTeams |-> TeamIds[i]]

TeamSet == {CURRENT_TEAMS[i] : i \in 1..NumTeams}

teamNamePrettier(team) ==
  PrettyNames[CHOOSE i \in 1..Len(TeamIds) : TeamIds[i] = team]

\* the fields getPlayerDetail fills from the attribute list, by position
SkillFields ==
  <<"closeShot", "midRangeShot", "threePointShot", "freeThrow", "shotIQ",
    "offensiveConsistency",
    "speed", "agility", "strength", "vertical", "stamina", "hustle",
    "overallDurability",
    "layup", "standingDunk", "drivingDunk", "postHook", "postFade",
    "postControl", "drawFoul", "hands",
    "passAccuracy", "ballHandle", "speedWithBall", "passIQ", "passVision",
    "interiorDefense", "perimeterDefense", "steal", "block", "helpDefenseIQ",
    "passPerception", "defensiveConsistency",
    "offensiveRebound", "defensiveRebound">>

\* the fields filled from the .badge-count list, by position
BadgeFields ==
  <<"legendaryBadgeCount", "purpleBadgeCount", "goldBadgeCount",
    "silverBadgeCount", "bronzeBadgeCount", "badgeCount">>

\* the fields filled from the badge tabs, and each one's selector
TabFields ==
  <<"outsideScoringBadgeCount", "insideScoringBadgeCount",
    "playmakingBadgeCount", "defensiveBadgeCount", "reboundingBadgeCount",
    "generalOffenseBadgeCount", "allAroundBadgeCount">>
TabSelectors ==
  <<"#pills-outscoring-tab", "#pills-inscoring-tab", "#pills-playmaking-tab",
    "#pills-defense-tab", "#pills-rebounding-tab", "#pills-genoffense-tab",
    "#pills-allaround-tab">>

Range(s) == {s[i] : i \in 1..Len(s)}
IndexOf(s, x) == CHOOSE i \in 1..Len(s) : s[i] = x

NumericFields ==
  {"overallAttribute"} \cup Range(SkillFields) \cup Range(BadgeFields)
    \cup Range(TabFields)
TextFields == {"name", "team", "height", "position"}

\* the columns of a record, in the order getPlayerDetail assigns them
Columns ==
  <<"name", "overallAttribute", "team">> \o SkillFields \o BadgeFields
    \o TabFields \o <<"height", "position">>

UNKNOWN == <<"U", "n", "k", "n", "o", "w", "n">>
NA == <<"N", "/", "A">>

(***************************************************************************)
(* Team roster extractor                                                   *)
(***************************************************************************)
\* A roster response is an error, or a document whose tbody elements are a
\* sequence of tables; a table is the sequence of its .entry-font cells,
\* each given by the href of its anchor ("" when there is none).
\* faulty variant: the list is returned even when it is empty
getPlayersUrlsFromEachTeamNoNull(response) ==
  IF response.k = "error" \/ response.tbody = <<>> THEN Null
  ELSE List(SelectSeq(response.tbody[1], LAMBDA href : href # ""))

getPlayersUrlsFromEachTeam(response) ==
  IF response.k = "error" THEN Null
  ELSE IF response.tbody = <<>> THEN Null
  ELSE LET playerUrls == SelectSeq(response.tbody[1], LAMBDA href : href # "")
       IN IF Len(playerUrls) > 0 THEN List(playerUrls) ELSE Null

(***************************************************************************)
(* Player detail extractor                                                 *)
(***************************************************************************)
\* attributes[index]?.children[0]?.data : the text of the index-th element
\* of a list of elements (index from 0), undefined when out of range or
\* when the element has no text child
DataAt(list, index) ==
  IF index + 1 \in 1..Len(list) THEN list[index + 1] ELSE Undefined

TrimData(x) == IF x.k = "string" THEN Str(trim(x.v)) ELSE x

\* $(selector).text() of an element that may be absent
TextOf(x) == IF x.k = "string" THEN x.v ELSE <<>>

\* faulty variant: reads the element after the one asked for
safeIntShifted(attributes, index) ==
  OrZero(parseInt(TrimData(DataAt(attributes, index + 1))))

safeInt(attributes, index) ==
  OrZero(parseInt(TrimData(DataAt(attributes, index))))

safeBadge(badgeRawData, i) == OrZero(parseInt(DataAt(badgeRawData, i)))

\* text.match(/\((\d+)\)/): the digits of the leftmost "(" digits ")"
MatchAt(text, i) ==
  LET ds == DigitPrefix(SubSeq(text, i + 1, Len(text)))
  IN IF text[i] = "(" /\ ds # <<>> /\ i + Len(ds) + 1 <= Len(text)
        /\ text[i + Len(ds) + 1] = ")"
     THEN ds ELSE <<>>

parseBadgeTab(tab) ==
  LET text == TextOf(tab)
      hits == {i \in 1..Len(text) : MatchAt(text, i) # <<>>}
  IN IF hits = {} THEN 0
     ELSE DecimalValue(MatchAt(text, CHOOSE i \in hits : \A j \in hits : i <= j))

\* header?.[n]?.children?.[1]?.children?.[0]?.data
HeaderData(header, n) ==
  IF header.k = "array" THEN DataAt(header.v, n) ELSE Undefined

getPlayerDetail(team, response) ==
  IF response.k = "error" THEN Null
  ELSE
    ("name" :> OrText(Str(trim(TextOf(response.h1))), UNKNOWN))
    @@ ("overallAttribute" :>
          OrZero(parseInt(Str(trim(TextOf(response.overall))))))
    @@ ("team" :> team)
    @@ [f \in Range(SkillFields) |->
          safeInt(response.attributes, IndexOf(SkillFields, f) - 1)]
    @@ [f \in Range(BadgeFields) |->
          safeBadge(response.badgeRawData, IndexOf(BadgeFields, f) - 1)]
    @@ [f \in Range(TabFields) |->
          parseBadgeTab(response.tabs[TabSelectors[IndexOf(TabFields, f)]])]
    @@ ("height" :> OrText(HeaderData(response.header, 6), NA))
    @@ ("position" :> OrText(HeaderData(response.header, 4), NA))
    @@ ("k" :> "player")


(***************************************************************************)
(* CSV writer                                                              *)
(***************************************************************************)
RECURSIVE ToDecimal(_)
ToDecimal(n) ==
  LET digit == CHOOSE c \in Digits : DigitVal[c] = n % 10
  IN IF n < 0 THEN <<"-">> \o ToDecimal(0 - n)
     ELSE IF n < 10 THEN <<digit>>
     ELSE ToDecimal(n \div 10) \o <<digit>>

\* one line of the file: the record's values in column order, numbers
\* written in decimal
Row(p) ==
  [c \in 1..Len(Columns) |->
     IF Columns[c] \in NumericFields THEN Str(ToDecimal(p[Columns[c]]))
     ELSE IF Columns[c] = "team" THEN [k |-> "name", v |-> p.team]
     ELSE Str(p[Columns[c]])]

\* faulty variant: the last record is not written
parseDropLast(db) ==
  <<Columns>> \o [i \in 1..(Len(db) - 1) |-> Row(db[i])]

\* parse(players) of json2csv: the header line, then one line per record
parse(db) == <<Columns>> \o [i \in 1..Len(db) |-> Row(db[i])]

(***************************************************************************)
(* The remote site                                                         *)
(***************************************************************************)
Urls == {"/players/1", "/players/2"}

SeqUpTo(S, n) == UNION {[1..m -> S] : m \in 0..n}

Error == [k |-> "error"]

\* the rosters tried: up to MaxEntries cells whose anchors alternate between
\* the two player URLs, the first cell with or without an href
UrlAt(j) == IF j % 2 = 1 THEN "/players/1" ELSE "/players/2"

RosterTables ==
  {[j \in 1..n |-> IF j = 1 /\ blank THEN "" ELSE UrlAt(j)] :
     n \in 0..MaxEntries, blank \in BOOLEAN}

RosterResponses ==
  {Error}
    \cup {[k |-> "html", tbody |-> tb] :
            tb \in {<<>>} \cup {<<es>> : es \in RosterTables}}

NoTabs == [sel \in Range(TabSelectors) |-> Undefined]

FullPage ==
  [k |-> "html",
   h1 |-> Str(<<" ", "L", "J", " ">>),
   overall |-> Str(<<"9", "7">>),
   attributes |-> <<Str(<<"8", "5">>), Str(<<"7", "0">>)>>,
   badgeRawData |-> <<Str(<<"3">>)>>,
   tabs |-> [NoTabs EXCEPT !["#pills-defense-tab"] =
                              Str(<<"D", " ", "(", "4", ")">>)],
   header |-> List(<<Undefined, Undefined, Undefined, Undefined,
                     Str(<<"S", "F">>), Undefined, Str(<<"6", "'", "9">>)>>)]

BarePage ==
  [k |-> "html", h1 |-> Undefined, overall |-> Undefined,
   attributes |-> <<>>, badgeRawData |-> <<>>, tabs |-> NoTabs,
   header |-> Undefined]

\* what the site serves at a player URL when the request succeeds
PageAt(url) == IF url = "/players/1" THEN FullPage ELSE BarePage

PlayerResponses(url) == {Error, PageAt(url)}

(***************************************************************************)
(* main                                                                    *)
(***************************************************************************)
EmptyMap == [t \in {} |-> Null]
NoFile == [k |-> "nofile"]
File(lines) == [k |-> "file", v |-> lines]
PendingFor(url) == [k |-> "pending", url |-> url]
Rejected == [k |-> "rejected"]

Truthy(x) == x.k \notin {"null", "undefined"}

TeamIndex(t) == CHOOSE i \in 1..NumTeams : CURRENT_TEAMS[i] = t

Init ==
  /\ teamPage \in [TeamSet -> RosterResponses]
  /\ playerPage \in {f \in [Urls -> {Error} \cup {PageAt(u) : u \in Urls}] :
                       \A u \in Urls : f[u] \in PlayerResponses(u)}
  /\ pc = "start"
  /\ rosterReq = [t \in TeamSet |-> "idle"]
  /\ roster = EmptyMap
  /\ ti = 1
  /\ detail = <<>>
  /\ order = <<>>
  /\ players = <<>>
  /\ csv = NoFile
  /\ error = "none"
  /\ dPage = Error
  /\ dRec = Pending
  /\ dpc = "off"

\* main starts: teams.map issues every roster request at once
Main ==
  /\ pc = "start"
  /\ pc' = "phase1"
  /\ rosterReq' = [t \in TeamSet |-> "inflight"]
  /\ UNCHANGED <<teamPage, playerPage, roster, ti, detail, order, players,
                 csv, error>>
  /\ UNCHANGED detailVars

\* a roster request completes and the callback of teams.map stores its
\* result
RosterComplete(t) ==
  /\ rosterReq[t] = "inflight"
  /\ LET playerUrls == getPlayersUrlsFromEachTeam(teamPage[t])
     IN roster' = IF Truthy(playerUrls) THEN (t :> playerUrls) @@ roster
                  ELSE roster
  /\ rosterReq' = [rosterReq EXCEPT ![t] = "done"]
  /\ UNCHANGED <<teamPage, playerPage, pc, ti, detail, order, players, csv,
                 error>>
  /\ UNCHANGED detailVars

\* faulty variant: waits for an entry of every team in roster
AllRostersResolvedNever ==
  \A t \in TeamSet : rosterReq[t] = "done" /\ t \in DOMAIN roster

\* faulty variant: phase 1 is not awaited
AllRostersResolvedEarly == TRUE

\* the Promise.all of phase 1 resolves
AllRostersResolved == \A t \in TeamSet : rosterReq[t] = "done"

Phase1Done ==
  /\ pc = "phase1"
  /\ AllRostersResolved
  /\ pc' = "loop"
  /\ ti' = 1
  /\ UNCHANGED <<teamPage, playerPage, rosterReq, roster, detail, order,
                 players, csv, error>>
  /\ UNCHANGED detailVars

\* roster.get(team) || []
UrlsOf(team) == IF team \in DOMAIN roster THEN roster[team].v ELSE <<>>

\* the loop body up to the await: playerUrls.map issues every player
\* request of the team at once; order records the completions of the batch
\* being awaited
BeginTeam ==
  /\ pc = "loop"
  /\ LET playerUrls == UrlsOf(CURRENT_TEAMS[ti])
     IN detail' = [key \in {<<ti, j>> : j \in 1..Len(playerUrls)} |->
                     PendingFor(playerUrls[key[2]])] @@ detail
  /\ order' = <<>>
  /\ pc' = "await"
  /\ UNCHANGED <<teamPage, playerPage, rosterReq, roster, ti, players, csv,
                 error>>
  /\ UNCHANGED detailVars

InFlight == {key \in DOMAIN detail : detail[key].k = "pending"}

SiteResponses == UNION {PlayerResponses(u) : u \in Urls}
PrettySet == {teamNamePrettier(t) : t \in TeamSet}

\* getPlayerDetail on every response the site can give, computed once
DetailTable ==
  [team \in PrettySet, response \in SiteResponses |->
     getPlayerDetail(team, response)]

\* faulty variant: a failed request is not caught and rejects the promise
DetailResultNoCatch(team, response) ==
  IF response.k = "error" THEN Rejected ELSE DetailTable[team, response]

\* the value the promise getPlayerDetail(team, url) settles with
DetailResult(team, response) == DetailTable[team, response]

\* a player request completes
PlayerComplete(key) ==
  /\ key \in InFlight
  /\ detail' = [detail EXCEPT ![key] =
                  DetailResult(teamNamePrettier(CURRENT_TEAMS[key[1]]),
                               playerPage[detail[key].url])]
  /\ order' = Append(order, key)
  /\ UNCHANGED <<teamPage, playerPage, pc, rosterReq, roster, ti, players,
                 csv, error>>
  /\ UNCHANGED detailVars

BatchKeys(i) == {key \in DOMAIN detail : key[1] = i}

\* faulty variant: the batch is not awaited
BatchResolvedEarly(i) == TRUE

\* the Promise.all of team i's batch has every value
BatchResolved(i) == \A key \in BatchKeys(i) : detail[key].k # "pending"

BatchRejected(i) == \E key \in BatchKeys(i) : detail[key].k = "rejected"

\* faulty variant: the settled values of team i's batch in the order they
\* settled
BatchValuesByCompletion(i) ==
  LET done == SelectSeq(order, LAMBDA key : key[1] = i)
  IN [n \in 1..Len(done) |-> detail[done[n]]]

\* the array Promise.all resolves with: the values in the order of the
\* promises passed in
BatchValues(i) ==
  LET n == Cardinality(BatchKeys(i))
  IN SelectSeq([j \in 1..n |-> detail[<<i, j>>]],
               LAMBDA p : p.k # "pending")

\* teamPlayers.filter((p) => p !== null)
NotNull(teamPlayers) == SelectSeq(teamPlayers, LAMBDA p : p # Null)

\* the await returns: survivors are appended and the loop advances, or
\* leaves for the write when the team was the last
EndTeam ==
  /\ pc = "await"
  /\ \/ /\ BatchRejected(ti)
        /\ pc' = "failed"
        /\ error' = "detail"
        /\ UNCHANGED <<players, ti>>
     \/ /\ ~BatchRejected(ti)
        /\ BatchResolved(ti)
        /\ players' = players \o NotNull(BatchValues(ti))
        /\ ti' = ti + 1
        /\ pc' = IF ti + 1 > NumTeams THEN "save" ELSE "loop"
        /\ UNCHANGED error
  /\ UNCHANGED <<teamPage, playerPage, rosterReq, roster, detail, order, csv>>
  /\ UNCHANGED detailVars

\* the write succeeds
Save ==
  /\ pc = "save"
  /\ players # <<>>
  /\ csv' = File(parse(players))
  /\ pc' = "done"
  /\ UNCHANGED <<teamPage, playerPage, rosterReq, roster, ti, detail, order,
                 players, error>>
  /\ UNCHANGED detailVars

\* the write step throws: require or the directory or the file fails, or
\* parse refuses an empty list
SaveFails ==
  /\ pc = "save"
  /\ error' = "write"
  /\ pc' = "failed"
  /\ UNCHANGED <<teamPage, playerPage, rosterReq, roster, ti, detail, order,
                 players, csv>>
  /\ UNCHANGED detailVars

Next ==
  \/ Main
  \/ \E t \in TeamSet : RosterComplete(t)
  \/ Phase1Done
  \/ BeginTeam
  \/ \E key \in DOMAIN detail : PlayerComplete(key)
  \/ EndTeam
  \/ Save
  \/ SaveFails

Spec == Init /\ [][Next]_vars

\* every request in flight is eventually answered, and main runs when it
\* can
FairSpec == Spec /\ WF_vars(Next)


(***************************************************************************)
(* getPlayerDetail on one page                                             *)
(***************************************************************************)
H1Cells == {Undefined, Str(<<" ">>), Str(<<" ", "L", "J", " ">>)}
OverallCells == {Undefined, Str(<<"9", "7">>), Str(<<"-", "5">>)}
AttrTexts == {Str(<<"8", "5">>), Str(<<" ", "7", "0", "x">>)}
AttrCells == {Undefined} \cup AttrTexts
BadgeTexts == {Str(<<"3">>)}
BadgeCells == {Undefined} \cup BadgeTexts
TabTexts ==
  {Str(<<"D", " ", "(", "4", ")">>), Str(<<"(", "x", ")", "(", "1", "2", ")">>)}
TabSamples ==
  {[NoTabs EXCEPT !["#pills-defense-tab"] = Str(<<"D", " ", "(", "4", ")">>)],
   [sel \in Range(TabSelectors) |->
      IF sel = "#pills-playmaking-tab" THEN Str(<<"D">>)
      ELSE Str(<<"(", "x", ")", "(", "1", "2", ")">>)]}
HeaderTexts == {Str(<<"S", "F">>), Str(<<"6", "'", "9">>)}
HeaderLists ==
  {List(<<Undefined, Undefined, Undefined, Undefined, Str(<<"S", "F">>),
          Undefined, Str(<<"6", "'", "9">>)>>),
   List(<<Undefined, Undefined, Undefined, Undefined, Str(<<"S", "F">>),
          Undefined>>),
   List(<<Undefined, Undefined, Undefined, Undefined, Undefined, Undefined,
          Str(<<"6", "'", "9">>)>>)}
HeaderSamples == {Undefined} \cup HeaderLists

DetailPages ==
  {[k |-> "html", h1 |-> h, overall |-> o, attributes |-> a,
    badgeRawData |-> b, tabs |-> t, header |-> hd] :
     h \in H1Cells, o \in OverallCells, a \in SeqUpTo(AttrCells, MaxAttrs),
     b \in SeqUpTo(BadgeCells, MaxBadges), t \in TabSamples,
     hd \in HeaderSamples}

DetailTeam == teamNamePrettier(CURRENT_TEAMS[1])

DetailInit ==
  /\ dPage \in DetailPages \cup {Error}
  /\ dRec = Pending
  /\ dpc = "fetch"
  /\ teamPage = [t \in TeamSet |-> Error]
  /\ playerPage = [u \in Urls |-> Error]
  /\ pc = "off"
  /\ rosterReq = [t \in TeamSet |-> "idle"]
  /\ roster = EmptyMap
  /\ ti = 1
  /\ detail = <<>>
  /\ order = <<>>
  /\ players = <<>>
  /\ csv = NoFile
  /\ error = "none"

\* the response arrives and getPlayerDetail returns
Detail ==
  /\ dpc = "fetch"
  /\ dRec' = getPlayerDetail(DetailTeam, dPage)
  /\ dpc' = "returned"
  /\ UNCHANGED dPage
  /\ UNCHANGED mainVars

DetailNext == Detail

DetailSpec == DetailInit /\ [][DetailNext]_vars


(***************************************************************************)
(* Properties of main                                                      *)
(***************************************************************************)
Settled == {key \in DOMAIN detail : detail[key].k # "pending"}
Returned == {key \in DOMAIN detail : detail[key].k = "player"}
KeyLE(a, b) == a[1] < b[1] \/ (a[1] = b[1] /\ a[2] <= b[2])
RankOf(key) == Cardinality({other \in Returned : KeyLE(other, key)})
AfterLoop == pc \in {"save", "done", "failed"}
FetchFailed(key) == detail[key] = Null

\* C1: when main has written the file, every record getPlayerDetail
\* returned is exactly one data row of it and one element of players, each
\* row is the line of the element of players at the same position, and
\* there are no other rows.
C1_RoundTrip ==
  pc = "done" =>
    /\ csv.k = "file"
    /\ Len(players) = Cardinality(Returned)
    /\ Len(csv.v) = 1 + Len(players)
    /\ \A key \in Returned :
         /\ players[RankOf(key)] = detail[key]
         /\ csv.v[1 + RankOf(key)] = Row(detail[key])
    /\ \A i \in 1..Len(players) : csv.v[1 + i] = Row(players[i])

C1_Witness ==
  /\ pc = "done"
  /\ Cardinality(Returned) >= 2
  /\ \E key \in DOMAIN detail : FetchFailed(key)

\* a roster page that was served and has no .entry-font anchor with an href
YieldsNoUrls(t) ==
  /\ teamPage[t].k = "html"
  /\ \A b \in 1..Len(teamPage[t].tbody) :
       b = 1 => \A e \in 1..Len(teamPage[t].tbody[b]) :
                  teamPage[t].tbody[b][e] = ""

SequentialTeamUrls(t) ==
  IF teamPage[t].k = "html" /\ teamPage[t].tbody # <<>>
  THEN SelectSeq(teamPage[t].tbody[1], LAMBDA href : href # "") ELSE <<>>

\* the records of team i computed one request after the other
SequentialTeam(i) ==
  LET r == getPlayersUrlsFromEachTeam(teamPage[CURRENT_TEAMS[i]])
      urls == IF r.k = "array" THEN r.v ELSE <<>>
      recs == [j \in 1..Len(urls) |->
                 getPlayerDetail(teamNamePrettier(CURRENT_TEAMS[i]),
                                 playerPage[urls[j]])]
  IN SelectSeq(recs, LAMBDA p : p # Null)

SequentialOutput ==
  File(parse(Concat([i \in 1..NumTeams |-> SequentialTeam(i)])))

\* C3: the content written is a function of the remote pages alone: for
\* every order in which the roster requests and the player requests
\* complete, it is the content a run without concurrency computes, so two
\* runs over the same pages write the same content.
C3_Deterministic == pc = "done" => csv = SequentialOutput

OutOfOrder ==
  \E a, b \in 1..Len(order) :
    /\ a < b
    /\ order[a][1] = order[b][1]
    /\ order[a][2] > order[b][2]
    /\ {order[a], order[b]} \subseteq Returned
    /\ detail[order[a]] # detail[order[b]]

C3_Witness == pc = "done" /\ OutOfOrder /\ roster # EmptyMap

UrlOfKey(key) == roster[CURRENT_TEAMS[key[1]]].v[key[2]]

\* C6: a failed roster request leaves its team out of roster, a failed
\* player request gives null for that request only, every other team and
\* player is processed and appended, no step before the write stops the
\* run, and the only error that fails the run is the write's.
C6_FailuresRecovered ==
  /\ pc = "failed" => error = "write"
  /\ pc \in {"start", "phase1", "loop", "await", "save"} => ENABLED Next
  /\ \A t \in TeamSet :
       rosterReq[t] = "done" =>
         (t \in DOMAIN roster <=>
            /\ teamPage[t].k = "html"
            /\ teamPage[t].tbody # <<>>
            /\ \E e \in 1..Len(teamPage[t].tbody[1]) :
                 teamPage[t].tbody[1][e] # "")
  /\ \A key \in Settled :
       IF playerPage[UrlOfKey(key)] = Error THEN detail[key] = Null
       ELSE detail[key].k = "player"
  /\ AfterLoop =>
       /\ \A t \in DOMAIN roster :
            \A j \in 1..Len(roster[t].v) : <<TeamIndex(t), j>> \in Settled
       /\ Len(players) = Cardinality(Returned)
       /\ \A key \in Returned : \E i \in 1..Len(players) : players[i] = detail[key]

C6_Witness ==
  /\ pc = "done"
  /\ \E t \in TeamSet : teamPage[t] = Error
  /\ \E key \in Settled : FetchFailed(key)
  /\ players # <<>>

RosterFrozen ==
  pc \in {"loop", "await", "save", "done", "failed"} => roster' = roster

\* C7: a player request exists only when every roster request has resolved
\* and roster holds exactly the teams whose page gave URLs; once the loop of
\* phase 2 has been entered roster does not change.
C7_PhaseBarrier ==
  /\ [](DOMAIN detail # {} \/ pc \in {"loop", "await"} =>
          /\ \A t \in TeamSet : rosterReq[t] = "done"
          /\ \A t \in TeamSet :
               t \in DOMAIN roster <=> SequentialTeamUrls(t) # <<>>)
  /\ [][RosterFrozen]_vars

C7_Witness ==
  /\ pc = "await"
  /\ InFlight # {}
  /\ Cardinality(DOMAIN roster) = NumTeams

TeamOfRecord(p) ==
  CHOOSE i \in 1..NumTeams : teamNamePrettier(CURRENT_TEAMS[i]) = p.team

AppendWhenQuiet == players' # players => InFlight = {}

\* C8: player requests of two teams are never in flight together; a request
\* of a team exists only when every request of each earlier team has
\* settled and its records are in players; players changes only when
\* nothing is in flight; players is grouped by team in configured order.
C8_NoCrossTeam ==
  /\ [](/\ \A a, b \in InFlight : a[1] = b[1]
        /\ \A key \in DOMAIN detail :
             /\ key[1] <= ti
             /\ \A other \in DOMAIN detail :
                  other[1] < key[1] => other \in Settled
             /\ Cardinality({other \in Returned : other[1] < key[1]})
                  <= Len(players)
        /\ \A a, b \in 1..Len(players) :
             a < b => TeamOfRecord(players[a]) <= TeamOfRecord(players[b]))
  /\ [][AppendWhenQuiet]_vars

C8_Witness ==
  /\ pc = "done"
  /\ Len(players) >= 2
  /\ players[1].team # players[Len(players)].team

\* the records of team i in the order their requests completed
CompletionSurvivors(i) ==
  LET keys == SelectSeq(order, LAMBDA key : key[1] = i /\ key \in Returned)
  IN [n \in 1..Len(keys) |-> detail[keys[n]]]

\* the records of team i in the order of its URL list
UrlOrderSurvivors(i) ==
  LET n == Cardinality(BatchKeys(i))
      keys == SelectSeq([j \in 1..n |-> <<i, j>>], LAMBDA key : key \in Returned)
  IN [m \in 1..Len(keys) |-> detail[keys[m]]]

AppendsByCompletion ==
  ti' = ti + 1 => players' = players \o CompletionSurvivors(ti)

AppendsByUrl == ti' = ti + 1 => players' = players \o UrlOrderSurvivors(ti)

\* C9 as stated: when a team's batch is appended, its records are appended
\* in the order in which the team's requests completed.
C9_CompletionOrder ==
  [][AppendsByCompletion]_vars

\* C9 amended: when a team's batch is appended, its records are appended in
\* the order of the team's URL list, whatever order the requests completed
\* in.
C9_UrlOrder ==
  [][AppendsByUrl]_vars

C9_Witness == pc \in {"loop", "save"} /\ OutOfOrder /\ Len(players) >= 2

NoFetchAfterLoop ==
  AfterLoop => detail' = detail /\ rosterReq' = rosterReq

\* C10: with every request eventually answered, main ends with the file
\* written or with an unhandled error, having finished phase 1 and the loop
\* of phase 2 over every team; from the write step on no request is in
\* flight and none is issued.
C10_Terminates ==
  /\ <>(pc \in {"done", "failed"})
  /\ [](AfterLoop =>
          /\ \A t \in TeamSet : rosterReq[t] = "done"
          /\ ti = NumTeams + 1
          /\ InFlight = {})
  /\ [][NoFetchAfterLoop]_vars

C10_Witness ==
  /\ pc = "done"
  /\ Cardinality(DOMAIN detail) >= 3
  /\ \E key \in DOMAIN detail : FetchFailed(key)


(***************************************************************************)
(* Properties of getPlayerDetail                                           *)
(***************************************************************************)
Slot(kind, at, sel) == [kind |-> kind, at |-> at, sel |-> sel]

AllFields == NumericFields \cup TextFields

Default(f) ==
  IF f \in NumericFields THEN 0 ELSE IF f = "name" THEN UNKNOWN ELSE NA

\* elements found by a selector of their own
SelectorSlots ==
  {Slot("h1", 0, ""), Slot("overall", 0, ""), Slot("header", 0, "")}
    \cup {Slot("tab", 0, sel) : sel \in Range(TabSelectors)}

HeaderLen(page) == IF page.header.k = "array" THEN Len(page.header.v) ELSE 0

\* elements of a positional list that are there but have no text
TextSlots(page) ==
  {Slot("attributeText", i, "") : i \in 0..(Len(page.attributes) - 1)}
    \cup {Slot("badgeText", i, "") : i \in 0..(Len(page.badgeRawData) - 1)}
    \cup {Slot("headerData", i, "") : i \in {4, 6} \cap 0..(HeaderLen(page) - 1)}

\* the element that would follow the last one of a positional list
TailSlots(page) ==
  {Slot("attribute", Len(page.attributes), ""),
   Slot("badge", Len(page.badgeRawData), "")}
    \cup (IF page.header.k = "array"
          THEN {Slot("headerChild", HeaderLen(page), "")} ELSE {})

\* an element that would stand before one the positional list has
MiddleSlots(page) ==
  {Slot("attribute", i, "") : i \in 0..(Len(page.attributes) - 1)}
    \cup {Slot("badge", i, "") : i \in 0..(Len(page.badgeRawData) - 1)}
    \cup {Slot("headerChild", i, "") : i \in {4, 6} \cap 0..(HeaderLen(page) - 1)}

\* the page does not have the element of slot e
IsMissing(page, e) ==
  CASE e.kind = "h1" -> page.h1 = Undefined
    [] e.kind = "overall" -> page.overall = Undefined
    [] e.kind = "header" -> page.header = Undefined
    [] e.kind = "tab" -> page.tabs[e.sel] = Undefined
    [] e.kind = "attributeText" -> page.attributes[e.at + 1] = Undefined
    [] e.kind = "badgeText" -> page.badgeRawData[e.at + 1] = Undefined
    [] e.kind = "headerData" -> page.header.v[e.at + 1] = Undefined
    [] OTHER -> TRUE

InsertAt(list, i, v) ==
  SubSeq(list, 1, i) \o <<v>> \o SubSeq(list, i + 1, Len(list))

\* the page with the element of slot e present, with content v
Restore(page, e, v) ==
  CASE e.kind = "h1" -> [page EXCEPT !.h1 = v]
    [] e.kind = "overall" -> [page EXCEPT !.overall = v]
    [] e.kind = "header" -> [page EXCEPT !.header = v]
    [] e.kind = "tab" -> [page EXCEPT !.tabs[e.sel] = v]
    [] e.kind = "attributeText" -> [page EXCEPT !.attributes[e.at + 1] = v]
    [] e.kind = "badgeText" -> [page EXCEPT !.badgeRawData[e.at + 1] = v]
    [] e.kind = "headerData" -> [page EXCEPT !.header.v[e.at + 1] = v]
    [] e.kind = "attribute" ->
         [page EXCEPT !.attributes = InsertAt(@, e.at, v)]
    [] e.kind = "badge" ->
         [page EXCEPT !.badgeRawData = InsertAt(@, e.at, v)]
    [] e.kind = "headerChild" ->
         [page EXCEPT !.header.v = InsertAt(@, e.at, v)]

\* the contents tried for the element of slot e
Contents(e) ==
  CASE e.kind = "h1" -> H1Cells \ {Undefined}
    [] e.kind = "overall" -> OverallCells \ {Undefined}
    [] e.kind = "header" -> HeaderLists
    [] e.kind = "tab" -> TabTexts
    [] e.kind \in {"attributeText", "attribute"} -> AttrTexts
    [] e.kind \in {"badgeText", "badge"} -> BadgeTexts
    [] e.kind \in {"headerData", "headerChild"} -> HeaderTexts

\* the fields read from the element of slot e
FieldsOf(e) ==
  CASE e.kind = "h1" -> {"name"}
    [] e.kind = "overall" -> {"overallAttribute"}
    [] e.kind = "header" -> {"height", "position"}
    [] e.kind = "tab" -> {TabFields[IndexOf(TabSelectors, e.sel)]}
    [] e.kind \in {"attributeText", "attribute"} ->
         IF e.at < Len(SkillFields) THEN {SkillFields[e.at + 1]} ELSE {}
    [] e.kind \in {"badgeText", "badge"} ->
         IF e.at < Len(BadgeFields) THEN {BadgeFields[e.at + 1]} ELSE {}
    [] e.kind \in {"headerData", "headerChild"} ->
         IF e.at = 4 THEN {"position"}
         ELSE IF e.at = 6 THEN {"height"} ELSE {}

\* record p, extracted from a page without the element of slot e, has the
\* default in the fields of e and in every other field the value extracted
\* from the page with the element
DefaultAndFrame(page, p, e) ==
  IsMissing(page, e) =>
    /\ \A f \in FieldsOf(e) : p[f] = Default(f)
    /\ \A v \in Contents(e) :
         LET full == getPlayerDetail(DetailTeam, Restore(page, e, v))
         IN \A f \in AllFields \ FieldsOf(e) : p[f] = full[f]

Extracted == dpc = "returned" /\ dRec # Null

\* C4 as stated: whichever attribute element the page is missing, the field
\* read from it has its default and no other field differs from the record
\* of the page that has the element.
C4_AnyMissingElement ==
  Extracted =>
    \A e \in SelectorSlots \cup TextSlots(dPage) \cup TailSlots(dPage)
               \cup MiddleSlots(dPage) :
      DefaultAndFrame(dPage, dRec, e)

\* C4 amended: when the lookup of a field finds nothing (the element found
\* by selector is absent, the positional list ends before the field's index,
\* or the indexed element has no text), the field has its default and no
\* other field differs from the record of the page that has the element.
C4_LookupFindsNothing ==
  Extracted =>
    \A e \in SelectorSlots \cup TextSlots(dPage) \cup TailSlots(dPage) :
      DefaultAndFrame(dPage, dRec, e)

C4_Witness ==
  /\ Extracted
  /\ dPage.h1 = Undefined
  /\ Len(dPage.attributes) = 1
  /\ dPage.attributes[1] # Undefined
  /\ dRec.name = UNKNOWN
  /\ dRec.midRangeShot = 0
  /\ dRec.closeShot # 0

\* C5: every numeric field of a record getPlayerDetail returns is an
\* integer and at least 0.
C5_NumericNonNegative ==
  Extracted => \A f \in NumericFields : dRec[f] \in Int /\ dRec[f] >= 0

====
